---- MODULE Spec2Model ----
(***************************************************************************)
(* Model of TileStache/Goodies/PGConfigServer.py: the database-backed      *)
(* layer dictionary DBLayers (an in-memory cache of parsed layers keyed by *)
(* layer key, invalidated by comparing the row's `updated` timestamp) and  *)
(* the PGConfiguration object that constructs it.                          *)
(*                                                                         *)
(* Two specifications are given over the same variables:                   *)
(*   Spec      every call (construction, keys, contains, get) is one       *)
(*             atomic action, interleaved with external writers of the     *)
(*             layer table and with the renderer compiling styles;         *)
(*   SpecConc  get is executed by two threads, one statement of the source *)
(*             per step, on one shared DBLayers instance.                  *)
(***************************************************************************)
EXTENDS Integers, FiniteSets, Sequences, TLC

\* ---------------------------------------------------------------- bounds
MaxTime == 3        \* external writers stop once the store clock reaches it
MaxLayers == 3      \* at most this many layer objects are ever parsed

Keys == {"roads", "rivers"}
Threads == {"A", "B"}
ConfigNames == {"default", "other"}

\* The `value` column of tilestache_layer / the `cache` column of
\* tilestache_config: a well-formed definition, JSON that is no definition,
\* and text that is not JSON.
LayerValues == {"{layer}", "{junk}", "notjson"}
ConfigValues == {"{cache}", "{cache,path}", "{junk}", "notjson"}

VARIABLES
    phase,      \* "new" | "ready" | "failed": PGConfiguration.__init__ not run / returned / raised
    cfgrow,     \* the `cache` text of the row of tilestache_config named "default"
    gconf,      \* PGConfiguration.cache and .dirpath
    store,      \* tilestache_layer: key -> row
    now,        \* the clock external writers stamp `updated` from
    cache,      \* DBLayers.seen_layers: key -> entry
    heap,       \* the layer objects made by the parser, by identity
    last,       \* the last completed call: its arguments, its result, the state before it
    pc,         \* SpecConc: each thread's position in __getitem__
    loc,        \* SpecConc: each thread's local variables
    ever        \* history: the keys that ever had a row, and those ever cached

vars == <<phase, cfgrow, gconf, store, now, cache, heap, last, pc, loc, ever>>

\* ------------------------------------------------------------ data shapes
NoRow == [present |-> FALSE, value |-> "", updated |-> 0]
Row(v, u) == [present |-> TRUE, value |-> v, updated |-> u]

\* A seen_layers entry dict(layer=..., updated=...); layer is a reference
\* into heap, 0 standing for None.
NoEntry == [cached |-> FALSE, layer |-> 0, updated |-> 0]
Entry(l, u) == [cached |-> TRUE, layer |-> l, updated |-> u]

\* A layer object: .key, .provider.mapnik, and (history) the `updated` value
\* of the row version it was parsed from.
NoObj == [alloc |-> FALSE, key |-> "", src |-> 0, mapnik |-> "None"]
Obj(k, u) == [alloc |-> TRUE, key |-> k, src |-> u, mapnik |-> "None"]

NoConf == [cache |-> "", dirpath |-> ""]

Allocated(h) == Cardinality({i \in 1..MaxLayers : h[i].alloc})

EmptyCache == [k \in Keys |-> NoEntry]
EmptyHeap == [i \in 1..MaxLayers |-> NoObj]

\* ------------------------------------------------ queries and collaborators
\* "SELECT key FROM tilestache_layer;"
SelectKeys(st) == {k \in Keys : st[k].present}

\* "SELECT COUNT(key) FROM tilestache_layer WHERE key='k';"
SelectCount(st, k) == Cardinality({j \in Keys : j = k /\ st[j].present})

\* "SELECT updated from tilestache_layer where key='k';" (fetchall)
SelectUpdated(st, k) == IF st[k].present THEN <<st[k].updated>> ELSE <<>>

\* "SELECT value, updated FROM tilestache_layer WHERE key='k';" (fetchall)
SelectRow(st, k) ==
    IF st[k].present THEN <<[value |-> st[k].value, updated |-> st[k].updated]>> ELSE <<>>

\* "SELECT cache FROM tilestache_config WHERE name='n'" (fetchone): the row or None
SelectConfig(row, n) == IF n = "default" THEN <<row>> ELSE <<>>

\* json.loads: the document, or "JSONDecodeError"
JsonLoads(text) ==
    CASE text = "{layer}" -> "layerdict"
      [] text = "{cache}" -> "cachedict"
      [] text = "{cache,path}" -> "cachedict+path"
      [] text = "{junk}" -> "junkdict"
      [] OTHER -> "JSONDecodeError"

\* TileStache.Config._parseConfigLayer accepts a layer definition and raises
\* on any other document.
ParseConfigLayerOk(doc) == doc = "layerdict"

\* TileStache.Config._parseConfigCache accepts a cache specification.
ParseConfigCacheOk(doc) == doc \in {"cachedict", "cachedict+path"}

\* `not layer` is false for a layer object: only None (0) is falsy.
Truthy(l) == l # 0

\* (variant) the row COUNT returns is tested for truth, not its number
EqTrueAny(n) == TRUE

\* result[0] == True, for the integer a COUNT query returns
EqTrue(n) == n = 1

\* ------------------------------------------------- statements of DBLayers
\* (variant) every cached layer is taken for stale
IsStaleAlways(updated, last_read) == TRUE

\* line 76: updated != last_read
IsStale(updated, last_read) == updated # last_read

\* line 77: self.seen_layers[key]['updated'] = updated
MarkRead(c, k, updated) == [c EXCEPT ![k].updated = updated]

\* line 87: del self.seen_layers[key]
Evict(c, k) == [c EXCEPT ![k] = NoEntry]

\* (variant) the style handle is left as it is
ClearMapnikNot(h, l) == h

\* line 92: layer.provider.mapnik = None
ClearMapnik(h, l) == [h EXCEPT ![l].mapnik = "None"]

\* lines 64-65: the parser returns a new layer object, which is given its key
NewLayerId(h) == Allocated(h) + 1
NewLayer(h, k, u) == [h EXCEPT ![NewLayerId(h)] = Obj(k, u)]

\* (variant) the dictionary is rebuilt around the one entry
StoreEntryFresh(c, k, l, u) == [j \in Keys |-> IF j = k THEN Entry(l, u) ELSE NoEntry]

\* (variant) setdefault in place of assignment: an existing entry is kept
StoreEntryIfAbsent(c, k, l, u) == IF c[k].cached THEN c ELSE [c EXCEPT ![k] = Entry(l, u)]

\* line 66: self.seen_layers[key] = dict(layer=layer, updated=raw_result[1])
StoreEntry(c, k, l, u) == [c EXCEPT ![k] = Entry(l, u)]

\* What a call hands back: how it ended, the layer returned (0: none), the
\* cache and heap it leaves, and what it cost: parser invocations, timestamp
\* queries, full-row queries, and whether a query raised.
Res(o, l, c, h, p, tq, rq, f) ==
    [outcome |-> o, layer |-> l, cache |-> c, heap |-> h,
     parses |-> p, tsq |-> tq, rowq |-> rq, fault |-> f]

\* (variant) the entry is written as soon as the row is read, before the
\* document is parsed
fetch_layer_store_first(c, h, st, k, down) ==
    LET rows == SelectRow(st, k) IN
    IF down THEN Res("StoreUnavailable", 0, c, h, 0, 0, 1, TRUE)
    ELSE IF Len(rows) = 0 THEN Res("KeyNotFound", 0, c, h, 0, 0, 1, FALSE)
    ELSE LET raw_result == rows[1]
             layer_dict == JsonLoads(raw_result.value)
             layer == NewLayerId(h)
             c2 == StoreEntry(c, k, layer, raw_result.updated)
         IN  IF layer_dict = "JSONDecodeError"
                 THEN Res("MalformedLayerDefinition", 0, c2, h, 0, 0, 1, FALSE)
             ELSE IF ~ParseConfigLayerOk(layer_dict)
                 THEN Res("MalformedLayerDefinition", 0, c2, h, 1, 0, 1, FALSE)
             ELSE Res("ok", layer, c2, NewLayer(h, k, raw_result.updated), 1, 0, 1, FALSE)

\* (variant) a missing row is remembered as an entry with no layer
fetch_layer_remember_missing(c, h, st, k, down) ==
    LET rows == SelectRow(st, k) IN
    IF down THEN Res("StoreUnavailable", 0, c, h, 0, 0, 1, TRUE)
    ELSE IF Len(rows) = 0
        THEN Res("KeyNotFound", 0, StoreEntry(c, k, 0, 0), h, 0, 0, 1, FALSE)
    ELSE LET raw_result == rows[1]
             layer_dict == JsonLoads(raw_result.value)
             layer == NewLayerId(h)
         IN  IF layer_dict = "JSONDecodeError"
                 THEN Res("MalformedLayerDefinition", 0, c, h, 0, 0, 1, FALSE)
             ELSE IF ~ParseConfigLayerOk(layer_dict)
                 THEN Res("MalformedLayerDefinition", 0, c, h, 1, 0, 1, FALSE)
             ELSE Res("ok", layer,
                      StoreEntry(c, k, layer, raw_result.updated),
                      NewLayer(h, k, raw_result.updated), 1, 0, 1, FALSE)

\* (variant) fetchone in place of fetchall()[0]: a missing row reads as
\* None (0) instead of raising
check_style_status_fetchone(c, st, k, down) ==
    LET rows == SelectUpdated(st, k) IN
    IF down THEN [outcome |-> "StoreUnavailable", stale |-> FALSE, cache |-> c]
    ELSE LET updated == IF Len(rows) = 0 THEN 0 ELSE rows[1]
             last_read == c[k].updated
         IN  IF IsStale(updated, last_read)
                 THEN [outcome |-> "ok", stale |-> TRUE, cache |-> MarkRead(c, k, updated)]
                 ELSE [outcome |-> "ok", stale |-> FALSE, cache |-> c]

\* (variant) an entry whose row is gone is dropped before the error is raised
check_style_status_drop_missing(c, st, k, down) ==
    LET rows == SelectUpdated(st, k) IN
    IF down THEN [outcome |-> "StoreUnavailable", stale |-> FALSE, cache |-> c]
    ELSE IF Len(rows) = 0
        THEN [outcome |-> "KeyNotFound", stale |-> FALSE, cache |-> Evict(c, k)]
    ELSE LET updated == rows[1]
             last_read == c[k].updated
         IN  IF IsStale(updated, last_read)
                 THEN [outcome |-> "ok", stale |-> TRUE, cache |-> MarkRead(c, k, updated)]
                 ELSE [outcome |-> "ok", stale |-> FALSE, cache |-> c]

\* (variant) the cache is not consulted: the store is always queried
contains_live(c, st, k, down) ==
    IF down THEN [outcome |-> "StoreUnavailable", answer |-> FALSE, cntq |-> 1]
    ELSE [outcome |-> "ok", answer |-> EqTrue(SelectCount(st, k)), cntq |-> 1]

\* ------------------------------------------------------ DBLayers, atomically
\* fetch_layer_from_db(key); `down` says the connection raises on the query.
fetch_layer_from_db(c, h, st, k, down) ==
    LET rows == SelectRow(st, k) IN
    IF down THEN Res("StoreUnavailable", 0, c, h, 0, 0, 1, TRUE)
    ELSE IF Len(rows) = 0 THEN Res("KeyNotFound", 0, c, h, 0, 0, 1, FALSE)
    ELSE LET raw_result == rows[1]
             layer_dict == JsonLoads(raw_result.value)
             layer == NewLayerId(h)
         IN  IF layer_dict = "JSONDecodeError"
                 THEN Res("MalformedLayerDefinition", 0, c, h, 0, 0, 1, FALSE)
             ELSE IF ~ParseConfigLayerOk(layer_dict)
                 THEN Res("MalformedLayerDefinition", 0, c, h, 1, 0, 1, FALSE)
             ELSE Res("ok", layer,
                      StoreEntry(c, k, layer, raw_result.updated),
                      NewLayer(h, k, raw_result.updated), 1, 0, 1, FALSE)

\* check_style_status(key): how it ended, its return value, the cache it leaves
check_style_status(c, st, k, down) ==
    LET rows == SelectUpdated(st, k) IN
    IF down THEN [outcome |-> "StoreUnavailable", stale |-> FALSE, cache |-> c]
    ELSE IF Len(rows) = 0 THEN [outcome |-> "KeyNotFound", stale |-> FALSE, cache |-> c]
    ELSE LET updated == rows[1]
             last_read == c[k].updated
         IN  IF IsStale(updated, last_read)
                 THEN [outcome |-> "ok", stale |-> TRUE, cache |-> MarkRead(c, k, updated)]
                 ELSE [outcome |-> "ok", stale |-> FALSE, cache |-> c]

\* (variant) a full-row query on which the connection raised is issued again
getitem_retry(c, h, st, k, fail) ==
    LET r == IF c[k].cached
             THEN LET layer == c[k].layer IN
                  IF ~Truthy(layer)
                  THEN fetch_layer_from_db(Evict(c, k), h, st, k, fail = 1)
                  ELSE LET chk == check_style_status(c, st, k, fail = 1) IN
                       IF chk.outcome # "ok"
                           THEN Res(chk.outcome, 0, chk.cache, h, 0, 1, 0, fail = 1)
                       ELSE IF chk.stale
                           THEN LET f == fetch_layer_from_db(chk.cache, ClearMapnik(h, layer),
                                                             st, k, fail = 2)
                                IN  [f EXCEPT !.tsq = 1]
                       ELSE Res("ok", layer, chk.cache, h, 0, 1, 0, FALSE)
             ELSE fetch_layer_from_db(c, h, st, k, fail = 1)
    IN  IF r.fault /\ r.rowq = 1
            THEN LET again == fetch_layer_from_db(r.cache, r.heap, st, k, FALSE)
                 IN  [again EXCEPT !.tsq = r.tsq, !.rowq = 2, !.fault = TRUE]
            ELSE r

\* __getitem__(key); `fail` is the number of the query of this call on which
\* the connection raises (0: on none).
getitem(c, h, st, k, fail) ==
    IF c[k].cached
    THEN LET layer == c[k].layer IN
         IF ~Truthy(layer)
         THEN fetch_layer_from_db(Evict(c, k), h, st, k, fail = 1)
         ELSE LET chk == check_style_status(c, st, k, fail = 1) IN
              IF chk.outcome # "ok"
                  THEN Res(chk.outcome, 0, chk.cache, h, 0, 1, 0, fail = 1)
              ELSE IF chk.stale
                  THEN LET f == fetch_layer_from_db(chk.cache, ClearMapnik(h, layer),
                                                    st, k, fail = 2)
                       IN  [f EXCEPT !.tsq = 1]
              ELSE Res("ok", layer, chk.cache, h, 0, 1, 0, FALSE)
    ELSE fetch_layer_from_db(c, h, st, k, fail = 1)

\* __contains__(key): how it ended, the answer, the COUNT queries issued
contains(c, st, k, down) ==
    IF c[k].cached THEN [outcome |-> "ok", answer |-> TRUE, cntq |-> 0]
    ELSE IF down THEN [outcome |-> "StoreUnavailable", answer |-> FALSE, cntq |-> 1]
    ELSE [outcome |-> "ok", answer |-> EqTrue(SelectCount(st, k)), cntq |-> 1]

\* (variant) the cached keys are listed, not the table's
keys_from_cache(st, down) == [outcome |-> "ok", keys |-> {k \in Keys : cache[k].cached}]

\* keys(): how it ended and the keys returned
keys(st, down) ==
    IF down THEN [outcome |-> "StoreUnavailable", keys |-> {}]
    ELSE [outcome |-> "ok", keys |-> SelectKeys(st)]

\* ------------------------------------------------------------ construction
\* The orders in which keys() may list a set of keys
Orders(S) ==
    {q \in [1..Cardinality(S) -> S] : \A i, j \in 1..Cardinality(S) : q[i] = q[j] => i = j}

\* (variant) a key whose fetch raises is skipped and the loop goes on
RECURSIVE PreloadSkipping(_, _, _, _, _, _)
PreloadSkipping(c, h, st, order, i, fail) ==
    IF i > Len(order) THEN Res("ok", 0, c, h, 0, 0, 0, FALSE)
    ELSE LET f == fetch_layer_from_db(c, h, st, order[i], fail = 1)
             r == PreloadSkipping(f.cache, f.heap, st, order, i + 1, fail - 1)
         IN  [r EXCEPT !.parses = @ + f.parses, !.rowq = @ + 1]

\* DBLayers.__init__, lines 41-42: fetch every listed key, in order; the
\* first fetch that raises ends the loop. `fail` counts down to the query
\* on which the connection raises.
RECURSIVE Preload(_, _, _, _, _, _)
Preload(c, h, st, order, i, fail) ==
    IF i > Len(order) THEN Res("ok", 0, c, h, 0, 0, 0, FALSE)
    ELSE LET f == fetch_layer_from_db(c, h, st, order[i], fail = 1) IN
         IF f.outcome # "ok" THEN [f EXCEPT !.parses = @ + (i - 1), !.rowq = i]
         ELSE LET r == Preload(f.cache, f.heap, st, order, i + 1, fail - 1) IN
              [r EXCEPT !.parses = @ + 1, !.rowq = @ + 1]

\* (variant) a name with no row falls back to a default cache specification
get_cache_dict_default(row, config_name, down) ==
    LET found == SelectConfig(row, config_name) IN
    IF down THEN "StoreUnavailable"
    ELSE IF Len(found) = 0 THEN "cachedict"
    ELSE IF JsonLoads(found[1]) = "JSONDecodeError" THEN "InvalidCacheSpec"
    ELSE JsonLoads(found[1])

\* PGConfiguration.get_cache_dict(config_name): the parsed document or the error
get_cache_dict(row, config_name, down) ==
    LET found == SelectConfig(row, config_name) IN
    IF down THEN "StoreUnavailable"
    ELSE IF Len(found) = 0 THEN "ConfigNotFound"
    ELSE IF JsonLoads(found[1]) = "JSONDecodeError" THEN "InvalidCacheSpec"
    ELSE JsonLoads(found[1])

\* line 107: path = cache_dict.get('path', dirpath)
ResolvePath(cache_dict, dirpath) == IF cache_dict = "cachedict+path" THEN "rowpath" ELSE dirpath

\* The record of a completed call
Call(op, k, r, answer, ks, cntq) ==
    [op |-> op, key |-> k, outcome |-> r.outcome, layer |-> r.layer,
     answer |-> answer, keys |-> ks,
     parses |-> r.parses, tsq |-> r.tsq, rowq |-> r.rowq, cntq |-> cntq, fault |-> r.fault,
     preCache |-> cache, preStore |-> store, preHeap |-> heap]

NoCall ==
    [op |-> "none", key |-> "", outcome |-> "ok", layer |-> 0, answer |-> FALSE, keys |-> {},
     parses |-> 0, tsq |-> 0, rowq |-> 0, cntq |-> 0, fault |-> FALSE,
     preCache |-> EmptyCache, preStore |-> [k \in Keys |-> NoRow], preHeap |-> EmptyHeap]

NoLocals ==
    [key |-> "", layer |-> 0, updated |-> 0, raw |-> NoRow, outcome |-> "none", result |-> 0,
     startCache |-> EmptyCache, startStore |-> [k \in Keys |-> NoRow]]

Idle == \A t \in Threads : pc[t] = "idle"

\* The history once the cache has become c
Cached(e, c) == [e EXCEPT !.cached = @ \cup {k \in Keys : c[k].cached}]

\* ------------------------------------------------------------------ actions
Init ==
    /\ phase = "new"
    /\ cfgrow \in ConfigValues
    /\ gconf = NoConf
    /\ store = [k \in Keys |-> NoRow]
    /\ now = 0
    /\ cache = EmptyCache
    /\ heap = EmptyHeap
    /\ last = NoCall
    /\ pc = [t \in Threads |-> "idle"]
    /\ loc = [t \in Threads |-> NoLocals]
    /\ ever = [row |-> {}, cached |-> {}]

\* An external writer inserts or rewrites the row of key k; every
\* modification stamps a later `updated`.
WriteRow(k, v) ==
    /\ Idle
    /\ phase # "failed"
    /\ now < MaxTime
    /\ now' = now + 1
    /\ store' = [store EXCEPT ![k] = Row(v, now + 1)]
    /\ last' = NoCall
    /\ ever' = [ever EXCEPT !.row = @ \cup {k}]
    /\ UNCHANGED <<phase, cfgrow, gconf, cache, heap, pc, loc>>

\* An external writer deletes the row of key k.
DeleteRow(k) ==
    /\ Idle
    /\ phase # "failed"
    /\ store[k].present
    /\ store' = [store EXCEPT ![k] = NoRow]
    /\ last' = NoCall
    /\ UNCHANGED <<phase, cfgrow, gconf, now, cache, heap, pc, loc, ever>>

\* The renderer compiles the style of the layer the cache holds for k.
Render(k) ==
    /\ Idle
    /\ phase = "ready"
    /\ cache[k].cached
    /\ Truthy(cache[k].layer)
    /\ heap[cache[k].layer].mapnik = "None"
    /\ heap' = [heap EXCEPT ![cache[k].layer].mapnik = "compiled"]
    /\ last' = NoCall
    /\ UNCHANGED <<phase, cfgrow, gconf, store, now, cache, pc, loc, ever>>

\* PGConfiguration.__init__(connection, dirpath, loglevel, config_name),
\* DBLayers.__init__ included. `order` is the order keys() lists the keys in;
\* `gone` are the listed keys whose row an external writer deletes before the
\* loop of lines 41-42 fetches them.
Construct(config_name, order, fail, gone) ==
    /\ phase = "new"
    /\ Cardinality(SelectKeys(store)) <= MaxLayers
    /\ LET cache_dict == get_cache_dict(cfgrow, config_name, fail = 1)
           later == [k \in Keys |-> IF k \in gone THEN NoRow ELSE store[k]]
           bad(o) == Res(o, 0, EmptyCache, EmptyHeap, 0, 0, 0, o = "StoreUnavailable")
           r == IF cache_dict \in {"StoreUnavailable", "ConfigNotFound", "InvalidCacheSpec"}
                    THEN bad(cache_dict)
                ELSE IF ~ParseConfigCacheOk(cache_dict) THEN bad("InvalidCacheSpec")
                ELSE IF fail = 2 THEN bad("StoreUnavailable")
                ELSE Preload(EmptyCache, EmptyHeap, later, order, 1, fail - 2)
           ks == IF cache_dict \in {"StoreUnavailable", "ConfigNotFound", "InvalidCacheSpec"}
                        \/ ~ParseConfigCacheOk(cache_dict)
                    THEN 0 ELSE 1
       IN  /\ phase' = IF r.outcome = "ok" THEN "ready" ELSE "failed"
           /\ gconf' = IF r.outcome = "ok"
                           THEN [cache |-> "backend", dirpath |-> ResolvePath(cache_dict, "dirpath")]
                           ELSE NoConf
           /\ cache' = IF r.outcome = "ok" THEN r.cache ELSE EmptyCache
           /\ heap' = IF r.outcome = "ok" THEN r.heap ELSE EmptyHeap
           /\ last' = Call("construct", config_name, r, FALSE, SelectKeys(store), ks)
           /\ ever' = Cached(ever, IF r.outcome = "ok" THEN r.cache ELSE EmptyCache)
           /\ store' = IF r.rowq > 0 THEN later ELSE store
    /\ UNCHANGED <<cfgrow, now, pc, loc>>

\* layers[k]
Get(k, fail) ==
    /\ Idle
    /\ phase = "ready"
    /\ Allocated(heap) < MaxLayers
    /\ LET r == getitem(cache, heap, store, k, fail) IN
           /\ cache' = r.cache
           /\ heap' = r.heap
           /\ last' = Call("get", k, r, FALSE, {}, 0)
           /\ ever' = Cached(ever, r.cache)
    /\ UNCHANGED <<phase, cfgrow, gconf, store, now, pc, loc>>

\* k in layers
Contains(k, down) ==
    /\ Idle
    /\ phase = "ready"
    /\ LET r == contains(cache, store, k, down) IN
           last' = Call("contains", k,
                        Res(r.outcome, 0, cache, heap, 0, 0, 0, r.outcome = "StoreUnavailable"),
                        r.answer, {}, r.cntq)
    /\ UNCHANGED <<phase, cfgrow, gconf, store, now, cache, heap, pc, loc, ever>>

\* layers.keys()
KeysCall(down) ==
    /\ Idle
    /\ phase = "ready"
    /\ LET r == keys(store, down) IN
           last' = Call("keys", "",
                        Res(r.outcome, 0, cache, heap, 0, 0, 0, down), FALSE, r.keys, 1)
    /\ UNCHANGED <<phase, cfgrow, gconf, store, now, cache, heap, pc, loc, ever>>

Env ==
    \/ \E k \in Keys, v \in LayerValues : WriteRow(k, v)
    \/ \E k \in Keys : DeleteRow(k)
    \/ \E k \in Keys : Render(k)

Boot ==
    \E n \in ConfigNames, fail \in 0..(2 + Cardinality(Keys)) :
        \E order \in Orders(SelectKeys(store)), gone \in SUBSET SelectKeys(store) :
            Construct(n, order, fail, gone)

Next ==
    \/ Env
    \/ Boot
    \/ \E k \in Keys, fail \in 0..2 : Get(k, fail)
    \/ \E k \in Keys, down \in BOOLEAN : Contains(k, down)
    \/ \E down \in BOOLEAN : KeysCall(down)

Spec == Init /\ [][Next]_vars

\* ------------------------------------ __getitem__, one statement per step
Active == {t \in Threads : pc[t] # "idle"}

Goto(t, label) == pc' = [pc EXCEPT ![t] = label]

\* The call of thread t ends: it raises (o # "ok") or returns layer l.
Finish(t, o, l) ==
    /\ pc' = [pc EXCEPT ![t] = "done"]
    /\ loc' = [loc EXCEPT ![t].outcome = o, ![t].result = l]

\* Thread t calls layers[k].
T_Call(t, k) ==
    /\ phase = "ready"
    /\ pc[t] = "idle"
    /\ Allocated(heap) + Cardinality(Active) < MaxLayers
    /\ Goto(t, "l84")
    /\ loc' = [loc EXCEPT ![t] = [NoLocals EXCEPT !.key = k, !.startCache = cache,
                                                   !.startStore = store]]
    /\ UNCHANGED <<phase, cfgrow, gconf, store, now, cache, heap, last, ever>>

\* line 84: if key in self.seen_layers
T_L84(t) ==
    /\ pc[t] = "l84"
    /\ Goto(t, IF cache[loc[t].key].cached THEN "l85" ELSE "l62")
    /\ UNCHANGED <<phase, cfgrow, gconf, store, now, cache, heap, last, loc, ever>>

\* lines 85-87: layer = self.seen_layers.get(key, 'not found')['layer'];
\* an empty layer is evicted and fetched afresh
T_L85(t) ==
    /\ pc[t] = "l85"
    /\ LET k == loc[t].key IN
       IF ~cache[k].cached
           THEN Finish(t, "TypeError", 0) /\ UNCHANGED cache
       ELSE IF ~Truthy(cache[k].layer)
           THEN /\ cache' = Evict(cache, k)
                /\ Goto(t, "l62")
                /\ UNCHANGED loc
       ELSE /\ Goto(t, "l74")
            /\ loc' = [loc EXCEPT ![t].layer = cache[k].layer]
            /\ UNCHANGED cache
    /\ UNCHANGED <<phase, cfgrow, gconf, store, now, heap, last, ever>>

\* line 74: updated = self.query_db("SELECT updated ...")[0][0]
T_L74(t, down) ==
    /\ pc[t] = "l74"
    /\ LET rows == SelectUpdated(store, loc[t].key) IN
       IF down THEN Finish(t, "StoreUnavailable", 0)
       ELSE IF Len(rows) = 0 THEN Finish(t, "KeyNotFound", 0)
       ELSE /\ Goto(t, "l75")
            /\ loc' = [loc EXCEPT ![t].updated = rows[1]]
    /\ UNCHANGED <<phase, cfgrow, gconf, store, now, cache, heap, last, ever>>

\* lines 75-76, 79-80, 95: last_read = self.seen_layers[key]['updated'];
\* when it equals `updated` the layer read at line 85 is returned
T_L75(t) ==
    /\ pc[t] = "l75"
    /\ LET k == loc[t].key IN
       IF ~cache[k].cached THEN Finish(t, "KeyError", 0)
       ELSE IF IsStale(loc[t].updated, cache[k].updated)
           THEN Goto(t, "l77") /\ UNCHANGED loc
       ELSE Finish(t, "ok", loc[t].layer)
    /\ UNCHANGED <<phase, cfgrow, gconf, store, now, cache, heap, last, ever>>

\* lines 77-78: self.seen_layers[key]['updated'] = updated; return True
T_L77(t) ==
    /\ pc[t] = "l77"
    /\ LET k == loc[t].key IN
       IF ~cache[k].cached
           THEN Finish(t, "KeyError", 0) /\ UNCHANGED cache
       ELSE /\ cache' = MarkRead(cache, k, loc[t].updated)
            /\ Goto(t, "l92")
            /\ UNCHANGED loc
    /\ UNCHANGED <<phase, cfgrow, gconf, store, now, heap, last, ever>>

\* lines 90-92: layer.provider.mapnik = None
T_L92(t) ==
    /\ pc[t] = "l92"
    /\ heap' = ClearMapnik(heap, loc[t].layer)
    /\ Goto(t, "l62")
    /\ UNCHANGED <<phase, cfgrow, gconf, store, now, cache, last, loc, ever>>

\* line 62: raw_result = self.query_db("SELECT value, updated ...")[0]
T_L62(t, down) ==
    /\ pc[t] = "l62"
    /\ LET rows == SelectRow(store, loc[t].key) IN
       IF down THEN Finish(t, "StoreUnavailable", 0)
       ELSE IF Len(rows) = 0 THEN Finish(t, "KeyNotFound", 0)
       ELSE /\ Goto(t, "l63")
            /\ loc' = [loc EXCEPT ![t].raw = Row(rows[1].value, rows[1].updated)]
    /\ UNCHANGED <<phase, cfgrow, gconf, store, now, cache, heap, last, ever>>

\* lines 63-65: layer_dict = json.loads(...); layer = _parseConfigLayer(...);
\* layer.key = key
T_L63(t) ==
    /\ pc[t] = "l63"
    /\ LET layer_dict == JsonLoads(loc[t].raw.value) IN
       IF layer_dict = "JSONDecodeError" \/ ~ParseConfigLayerOk(layer_dict)
           THEN Finish(t, "MalformedLayerDefinition", 0) /\ UNCHANGED heap
       ELSE /\ heap' = NewLayer(heap, loc[t].key, loc[t].raw.updated)
            /\ Goto(t, "l66")
            /\ loc' = [loc EXCEPT ![t].layer = NewLayerId(heap)]
    /\ UNCHANGED <<phase, cfgrow, gconf, store, now, cache, last, ever>>

\* lines 66-67: self.seen_layers[key] = dict(layer=layer, updated=raw_result[1]);
\* return layer
T_L66(t) ==
    /\ pc[t] = "l66"
    /\ cache' = StoreEntry(cache, loc[t].key, loc[t].layer, loc[t].raw.updated)
    /\ Finish(t, "ok", loc[t].layer)
    /\ ever' = [ever EXCEPT !.cached = @ \cup {loc[t].key}]
    /\ UNCHANGED <<phase, cfgrow, gconf, store, now, heap, last>>

\* The caller of thread t has taken the result.
T_Return(t) ==
    /\ pc[t] = "done"
    /\ Goto(t, "idle")
    /\ loc' = [loc EXCEPT ![t] = NoLocals]
    /\ UNCHANGED <<phase, cfgrow, gconf, store, now, cache, heap, last, ever>>

Step(t) ==
    \/ \E k \in Keys : T_Call(t, k)
    \/ T_L84(t)
    \/ T_L85(t)
    \/ \E down \in BOOLEAN : T_L74(t, down)
    \/ T_L75(t)
    \/ T_L77(t)
    \/ T_L92(t)
    \/ \E down \in BOOLEAN : T_L62(t, down)
    \/ T_L63(t)
    \/ T_L66(t)
    \/ T_Return(t)

NextConc ==
    \/ Env
    \/ Boot
    \/ \E t \in Threads : Step(t)

SpecConc == Init /\ [][NextConc]_vars

\* -------------------------------------------------------------- properties
\* The call just completed was get(key) on a ready store.
GotKey == last.op = "get"
PreEntry == last.preCache[last.key]
PreRow == last.preStore[last.key]

\* A row value the layer cannot be built from: json.loads or the parser raises.
Malformed(v) == JsonLoads(v) = "JSONDecodeError" \/ ~ParseConfigLayerOk(JsonLoads(v))

\* The store's `updated` for the key is the one recorded when the cached
\* layer was fetched.
Unchanged ==
    /\ PreEntry.cached
    /\ PreRow.present
    /\ PreRow.updated = last.preHeap[PreEntry.layer].src

\* C1: a get(k) whose key is cached and whose row still carries the `updated`
\* value recorded at the last fetch returns the very layer object the cache
\* held, without invoking the parser or fetching the row, and leaves the
\* cache as it was (the connection answering its query).
C1_CacheHit ==
    (GotKey /\ Unchanged)
        => /\ cache = last.preCache
           /\ last.parses = 0
           /\ last.rowq = 0
           /\ ~last.fault => (last.outcome = "ok" /\ last.layer = PreEntry.layer)

C1_Witness ==
    /\ GotKey /\ Unchanged /\ ~last.fault
    /\ last.outcome = "ok"
    /\ last.layer = PreEntry.layer
    /\ last.preHeap[PreEntry.layer].src > 0

\* C2: a get(k) whose key is cached while the store's row, still valid, now
\* carries another `updated` value returns a layer object that did not exist
\* before the call, invokes the parser exactly once, and leaves the cache
\* holding that new layer with the row's new `updated` value.
C2_Staleness ==
    (GotKey /\ PreEntry.cached /\ PreRow.present /\ ~Malformed(PreRow.value)
            /\ PreRow.updated # PreEntry.updated /\ ~last.fault)
        => /\ last.outcome = "ok"
           /\ last.layer # PreEntry.layer
           /\ ~last.preHeap[last.layer].alloc
           /\ heap[last.layer].alloc
           /\ heap[last.layer].src = PreRow.updated
           /\ last.parses = 1
           /\ cache[last.key] = Entry(last.layer, PreRow.updated)

C2_Witness ==
    /\ GotKey /\ PreEntry.cached /\ PreRow.present /\ ~Malformed(PreRow.value)
    /\ PreRow.updated # PreEntry.updated /\ ~last.fault
    /\ last.outcome = "ok"
    /\ last.parses = 1
    /\ cache[last.key] = Entry(last.layer, PreRow.updated)

\* C3: a get(k) that ends in an error leaves the cache map exactly as it was
\* before the call.
C3_FailureAtomic == (GotKey /\ last.outcome # "ok") => cache = last.preCache

\* C4: every cache entry's `updated` is the `updated` of the row version its
\* layer was parsed from.
C4_EntryConsistent ==
    \A k \in Keys : cache[k].cached => cache[k].updated = heap[cache[k].layer].src

\* Thread t's get(k) began while the cache held k at one row version and the
\* store held a valid row for k at another; the store has not changed since.
BeganStale(t) ==
    LET k == loc[t].key
        e == loc[t].startCache[k]
    IN  /\ e.cached
        /\ Truthy(e.layer)
        /\ e.updated = heap[e.layer].src
        /\ store = loc[t].startStore
        /\ store[k].present
        /\ ~Malformed(store[k].value)
        /\ store[k].updated # e.updated

\* C5: every get(k) that began while k was cached at version T1 and the store
\* held a valid row at T2 # T1 returns a layer parsed from the T2 row, however
\* its statements interleave with those of another get(k); and once no call
\* is in progress the cache holds a layer parsed from T2 with updated = T2.
C5_ConcurrentStaleGets ==
    \A t \in Threads :
        (pc[t] = "done" /\ BeganStale(t) /\ loc[t].outcome # "StoreUnavailable")
            => /\ loc[t].outcome = "ok"
               /\ heap[loc[t].result].src = store[loc[t].key].updated
               /\ (\A u \in Threads : pc[u] \in {"done", "idle"})
                    => /\ cache[loc[t].key].updated = store[loc[t].key].updated
                       /\ heap[cache[loc[t].key].layer].src = store[loc[t].key].updated

\* C6: every get(k) issued while the row of k is malformed fails with
\* MalformedLayerDefinition and returns no layer (the connection answering).
C6_MalformedAlwaysFails ==
    (GotKey /\ PreRow.present /\ Malformed(PreRow.value) /\ ~last.fault)
        => (last.outcome = "MalformedLayerDefinition" /\ last.layer = 0)

\* C7: get(k) for a key with no row in the store fails and leaves the cache
\* unchanged, with KeyNotFound whenever the connection answered, whether or
\* not k is cached.
C7_KeyNotFound ==
    (GotKey /\ ~PreRow.present)
        => /\ last.outcome # "ok"
           /\ last.layer = 0
           /\ cache = last.preCache
           /\ ~last.fault => last.outcome = "KeyNotFound"

C7_Witness ==
    /\ GotKey /\ ~PreRow.present /\ PreEntry.cached
    /\ last.outcome = "KeyNotFound"
    /\ cache = last.preCache

\* C8: get(k) for an uncached key whose row is malformed fails, with
\* MalformedLayerDefinition whenever the connection answered, and k is
\* still uncached afterwards.
C8_MalformedFirstFetch ==
    (GotKey /\ ~PreEntry.cached /\ PreRow.present /\ Malformed(PreRow.value))
        => /\ last.outcome # "ok"
           /\ ~last.fault => last.outcome = "MalformedLayerDefinition"
           /\ ~cache[last.key].cached

C8_Witness ==
    /\ GotKey /\ ~PreEntry.cached /\ PreRow.present /\ PreRow.value = "notjson"
    /\ last.outcome = "MalformedLayerDefinition"
    /\ ~cache[last.key].cached

\* C9: contains(k) answers true exactly when k is cached or the store has a
\* row for k; for a cached k it answers true without querying the store,
\* also when the row is gone.
C9_Contains ==
    (last.op = "contains")
        => /\ PreEntry.cached => (last.outcome = "ok" /\ last.answer /\ last.cntq = 0)
           /\ ~last.fault => last.outcome = "ok"
           /\ last.outcome = "ok" => (last.answer <=> (PreEntry.cached \/ PreRow.present))

C9_Witness ==
    /\ last.op = "contains"
    /\ PreEntry.cached /\ ~PreRow.present
    /\ last.answer /\ last.cntq = 0

\* C10, as stated: a cache entry for k comes into being only in a get(k)
\* that succeeds.
C10_LazyOnly ==
    [][\A k \in Keys : (~cache[k].cached /\ cache'[k].cached)
            => (last'.op = "get" /\ last'.key = k /\ last'.outcome = "ok")]_vars

\* C10, amended: a cache entry for k comes into being only in a get(k) that
\* succeeds or in a successful construction, which caches exactly the keys
\* that have a row at that time.
C10_LazyOrPreloaded ==
    [][/\ \A k \in Keys : (~cache[k].cached /\ cache'[k].cached)
            => \/ last'.op = "get" /\ last'.key = k /\ last'.outcome = "ok"
               \/ last'.op = "construct" /\ last'.outcome = "ok"
       /\ (last'.op = "construct" /\ last'.outcome = "ok")
            => \A k \in Keys : cache'[k].cached <=> store[k].present]_vars

C10_Witness ==
    /\ GotKey /\ ~PreEntry.cached
    /\ last.outcome = "ok"
    /\ cache[last.key].cached

\* C11: a key once cached stays cached, whatever calls, row updates and row
\* deletions follow.
C11_NeverExpired == \A k \in ever.cached : cache[k].cached

C11_Witness ==
    /\ GotKey /\ PreEntry.cached
    /\ last.outcome = "MalformedLayerDefinition"
    /\ last.key \in ever.cached
    /\ cache[last.key].cached

\* The construction just completed named a configuration that has no row.
NoSuchConfig == last.op = "construct" /\ Len(SelectConfig(cfgrow, last.key)) = 0

\* C12: construction with a config_name that matches no configuration row
\* fails (ConfigNotFound whenever the connection answered) before the layer
\* table is queried or any layer parsed; nothing is cached and no store
\* object results.
C12_ConfigNotFound ==
    NoSuchConfig
        => /\ last.outcome # "ok"
           /\ ~last.fault => last.outcome = "ConfigNotFound"
           /\ last.cntq = 0 /\ last.rowq = 0 /\ last.tsq = 0
           /\ last.parses = 0
           /\ cache = EmptyCache /\ heap = EmptyHeap
           /\ phase = "failed"

C12_Witness ==
    /\ NoSuchConfig
    /\ last.outcome = "ConfigNotFound"
    /\ SelectKeys(store) # {}
    /\ phase = "failed"

\* C13: a contains(k) that directly follows a successful get(k) answers true;
\* a contains(k) for a key that never had a row and was never cached answers
\* false (the connection answering).
C13_ContainsAfterGet ==
    [][/\ (last.op = "get" /\ last.outcome = "ok"
              /\ last'.op = "contains" /\ last'.key = last.key)
            => (last'.outcome = "ok" /\ last'.answer)
       /\ (last'.op = "contains" /\ last'.key \notin ever.row /\ last'.key \notin ever.cached)
            => /\ ~last'.fault => last'.outcome = "ok"
               /\ last'.outcome = "ok" => ~last'.answer]_vars

C13_Witness ==
    /\ last.op = "contains"
    /\ last.key \notin ever.row /\ last.key \notin ever.cached
    /\ ever.row # {} /\ ever.cached # {}
    /\ last.outcome = "ok" /\ ~last.answer

\* C14: keys() returns exactly the keys that have a row when it is called,
\* whatever the cache holds, and leaves the cache as it was.
C14_KeysLive ==
    (last.op = "keys")
        => /\ cache = last.preCache
           /\ last.fault => last.outcome = "StoreUnavailable"
           /\ ~last.fault => (/\ last.outcome = "ok"
                              /\ last.keys = {k \in Keys : last.preStore[k].present})

C14_Witness ==
    /\ last.op = "keys" /\ last.outcome = "ok"
    /\ \E k \in Keys : last.preCache[k].cached /\ ~last.preStore[k].present /\ k \notin last.keys
    /\ \E k \in Keys : ~last.preCache[k].cached /\ last.preStore[k].present /\ k \in last.keys

\* The timestamp query of the get just completed was answered.
Answered == ~(last.fault /\ last.rowq = 0)

\* C15: a get on a cached key issues exactly one timestamp query, no full-row
\* query when the timestamps match and exactly one when they differ; a get on
\* an uncached key issues no timestamp query and exactly one full-row query;
\* a query on which the connection raised ends the call and is not issued
\* again.
C15_QueryCost ==
    GotKey
        => /\ PreEntry.cached
                => /\ last.tsq = 1
                   /\ (Answered /\ PreRow.present /\ PreRow.updated = PreEntry.updated)
                        => last.rowq = 0
                   /\ (Answered /\ PreRow.present /\ PreRow.updated # PreEntry.updated)
                        => last.rowq = 1
           /\ ~PreEntry.cached => (last.tsq = 0 /\ last.rowq = 1)
           /\ last.tsq <= 1 /\ last.rowq <= 1
           /\ last.fault => (last.outcome = "StoreUnavailable" /\ last.layer = 0)

C15_Witness ==
    /\ GotKey /\ PreEntry.cached /\ PreRow.present
    /\ PreRow.updated # PreEntry.updated
    /\ last.fault
    /\ last.tsq = 1 /\ last.rowq = 1

\* C16: get(k) leaves the cache entry of every other key as it was; keys()
\* and contains(k) leave the whole cache as it was; once construction has
\* returned, no step changes the cache backend or the working directory.
C16_Frame ==
    [][/\ last'.op = "get" => \A j \in Keys \ {last'.key} : cache'[j] = cache[j]
       /\ last'.op \in {"keys", "contains"} => cache' = cache
       /\ phase = "ready" => gconf' = gconf]_vars

C16_Witness ==
    /\ GotKey /\ last.outcome = "ok"
    /\ cache[last.key] # PreEntry
    /\ \E j \in Keys \ {last.key} : last.preCache[j].cached /\ cache[j] = last.preCache[j]
    /\ gconf # NoConf

Preloading ==
    /\ last.op = "construct"
    /\ Len(SelectConfig(cfgrow, last.key)) = 1
    /\ ParseConfigCacheOk(JsonLoads(cfgrow))

\* C18: a construction that succeeds leaves a cache entry for exactly the
\* keys that had a row, each holding a layer parsed from that row with that
\* row's `updated`; a construction during which one of the listed rows is
\* malformed or has been deleted fails, and no store object results.
C18_EagerPreload ==
    /\ (last.op = "construct" /\ last.outcome = "ok")
        => /\ phase = "ready"
           /\ last.parses = Cardinality(SelectKeys(last.preStore))
           /\ \A k \in Keys :
                /\ cache[k].cached <=> last.preStore[k].present
                /\ cache[k].cached
                    => /\ cache[k].updated = last.preStore[k].updated
                       /\ heap[cache[k].layer].alloc
                       /\ heap[cache[k].layer].key = k
                       /\ heap[cache[k].layer].src = last.preStore[k].updated
    /\ (Preloading /\ \E k \in SelectKeys(last.preStore) :
                          Malformed(last.preStore[k].value) \/ ~store[k].present)
        => /\ last.outcome # "ok"
           /\ phase = "failed"
           /\ cache = EmptyCache

C18_Witness ==
    /\ last.op = "construct" /\ last.outcome = "ok"
    /\ phase = "ready"
    /\ \A k \in Keys : last.preStore[k].present /\ cache[k].cached

\* C19: every cache entry holds a layer object the parser returned, never an
\* empty layer, so the eviction of line 87 has nothing to act on.
C19_NoEmptyLayer ==
    \A k \in Keys : cache[k].cached => (Truthy(cache[k].layer) /\ heap[cache[k].layer].alloc)

C19_Witness ==
    /\ GotKey /\ PreEntry.cached
    /\ last.fault /\ last.rowq = 1
    /\ Truthy(cache[last.key].layer)
    /\ heap[cache[last.key].layer].alloc

====
